---- MODULE Spec2Model ----
(***************************************************************************)
(* Checkout saga of the marketplace: the cart store and order coordinator  *)
(* (services/orders-service), the payment processor                        *)
(* (services/payments-service), the catalog they read                      *)
(* (services/products-service), and the token verification and revocation  *)
(* of the auth service (services/auth-service, shared/utils.py).           *)
(*                                                                         *)
(* Every request handler is a sequence of steps, one per awaited store or  *)
(* network call, run by a request slot p \in Procs; slots interleave       *)
(* freely, as the asyncio handlers of the services do.                     *)
(*                                                                         *)
(* Money is counted in cents.  The code stores money as a Python float     *)
(* made from a Decimal (float(d)) and reads it back as Decimal(str(f)).    *)
(* A stored float is written here as the decimal it prints as: str(f), the *)
(* shortest decimal that rounds to f.  Floats carry MantissaBits           *)
(* significant bits; the doubles of the store carry 53, and the model      *)
(* scales the precision down together with its amounts.                    *)
(***************************************************************************)
EXTENDS Integers, Sequences, FiniteSets, TLC

\* ---------------------------------------------------------------- bounds
NumProcs == 2
MaxOrders == 2
MaxQty == 2

MaxTime == 16
MaxLogins == 1
MaxIssued == 6
MantissaBits == 16

\* settings (shared/utils.py)
ACCESS_TOKEN_EXPIRE_MINUTES == 15
REFRESH_TOKEN_EXPIRE_DAYS == 7
SECRET_KEY == "secret"
REFRESH_SECRET_KEY == "refresh_secret"

Procs == 1..NumProcs
Workers == {1, 2}
Users == {"u1", "u2"}
Products == {"p1", "p2"}
Prices == {101, 250}
Stocks == 0..MaxQty
Quantities == 1..MaxQty
Methods == {"credit_card"}
StatusInputs == {"pending", "paid", " shipped "}
Schemes == {"Bearer", "Basic"}
\* The host's local zone, in minutes east of UTC.
UtcOffsets == {-60, 0, 60}

VARIABLES catalog, carts, orders, payments, pc, loc,
          now, tz, issued, revoked_tokens

vars == <<catalog, carts, orders, payments, pc, loc, now, tz, issued, revoked_tokens>>

\* The stores of the marketplace services, and the state of the auth service
\* with the clock and the local zone of its host.
market == <<catalog, carts, orders, payments>>

identity == <<now, tz, issued, revoked_tokens>>

\* ------------------------------------------------------------ data shapes
NoProduct == [found |-> FALSE, is_active |-> FALSE, stock |-> 0, price |-> 0]

NoOrder == [id |-> 0, user_id |-> "none", items |-> <<>>, total_amount |-> 0,
            status |-> "none", payment_id |-> 0]

NoPayment == [id |-> 0, order_id |-> 0, user_id |-> "none", amount |-> 0,
              status |-> "none", transaction_id |-> 0, payment_method |-> "none"]

NoClaims == [sub |-> "none", role |-> "none", jti |-> 0, exp |-> 0]

NoToken == [claims |-> NoClaims, key |-> "none"]

NoHeaders == [x_user_id |-> "none", x_user_role |-> "none"]

NoAnswer == [kind |-> "none", code |-> 0, body |-> "none"]

NoLoc == [kind |-> "none", user |-> "none", product_id |-> "none", quantity |-> 0,
          order_id |-> 0, status |-> "none", payment_method |-> "none",
          items |-> <<>>, i |-> 0, order_items |-> <<>>, total_amount |-> 0,
          product |-> NoProduct, is_success |-> FALSE, transaction_id |-> 0,
          payment_id |-> 0, existed |-> FALSE, drew |-> FALSE, called |-> "no",
          before |-> "none",
          scheme |-> "none", token |-> NoToken, refresh_token |-> NoToken,
          payload |-> NoClaims, body |-> NoToken,
          path |-> "none", request_headers |-> NoHeaders, headers |-> NoHeaders,
          verifier |-> "none", answer |-> NoAnswer, total |-> 0,
          code |-> 0, detail |-> "none", order |-> NoOrder, payment |-> NoPayment]

\* ------------------------------------------------------------ conversions
\* a / b rounded to the nearest integer, ties to even.
RoundDiv(a, b) ==
    LET q == a \div b
        r == a % b IN
    IF 2 * r > b \/ (2 * r = b /\ q % 2 = 1) THEN q + 1 ELSE q

\* The binary exponent that gives d cents a mantissa of the given width.
RECURSIVE Exponent(_, _, _)
Exponent(d, bits, k) ==
    IF d * 2^k >= 100 * 2^(bits - 1) THEN k ELSE Exponent(d, bits, k + 1)

\* The binary float nearest to d cents: m / 2^k units of currency.
Nearest(d, bits) ==
    IF d = 0 THEN [m |-> 0, k |-> 0]
    ELSE [m |-> RoundDiv(d * 2^Exponent(d, bits, 0), 100), k |-> Exponent(d, bits, 0)]

float_coarse(d) == Nearest(d, 8)

float(d) == Nearest(d, MantissaBits)

\* str(f): the decimal of fewest digits that float() maps back to f, in
\* cents; the nearest cent where none does.
str(f) ==
    LET cent == RoundDiv(f.m * 100, 2^f.k)
        at(step) == RoundDiv(cent, step) * step IN
    IF float(at(1000)) = f THEN at(1000)
    ELSE IF float(at(100)) = f THEN at(100)
    ELSE IF float(at(10)) = f THEN at(10)
    ELSE cent

\* The amounts the carts and orders of the model can reach, and the stored
\* float of each, computed once.
Amounts == 0..((MaxQty + 2) * 1010)

Stored == [d \in Amounts |-> str(float(d))]

\* float(d) as it is stored, written as the decimal it prints as.
float_(d) == IF d \in Amounts THEN Stored[d] ELSE str(float(d))

\* Decimal(str(f)) of a stored float: the decimal it prints as, exactly.
Decimal_str(f) == f

sanitize_input(text) == IF text = " shipped " THEN "shipped" ELSE text

RECURSIVE SumItems(_)
SumItems(items) ==
    IF items = <<>> THEN 0
    ELSE Head(items).quantity * Decimal_str(Head(items).price) + SumItems(Tail(items))

\* ------------------------------------------------------------ request slots
\* A slot is idle, inside a handler (pc names the await it stands at), or done
\* with the response in loc; what a finished handler no longer holds is reset.
Response(l, code, detail) ==
    [NoLoc EXCEPT !.kind = l.kind, !.user = l.user, !.product_id = l.product_id,
                  !.quantity = l.quantity, !.order_id = l.order_id, !.status = l.status,
                  !.i = l.i, !.existed = l.existed, !.drew = l.drew, !.called = l.called,
                  !.is_success = l.is_success, !.before = l.before,
                  !.order = l.order, !.payment = l.payment,
                  !.scheme = l.scheme, !.token = l.token,
                  !.refresh_token = l.refresh_token, !.payload = l.payload,
                  !.body = l.body,
                  !.path = l.path, !.request_headers = l.request_headers,
                  !.headers = l.headers, !.verifier = l.verifier,
                  !.answer = l.answer, !.total = l.total,
                  !.code = code, !.detail = detail]

Request(kind, u) == [NoLoc EXCEPT !.kind = kind, !.user = u]

Finish(p, l, code, detail) ==
    /\ pc' = [pc EXCEPT ![p] = "done"]
    /\ loc' = [loc EXCEPT ![p] = Response(l, code, detail)]

Step(p, label, l) ==
    /\ pc' = [pc EXCEPT ![p] = label]
    /\ loc' = [loc EXCEPT ![p] = l]

\* The response has been sent; the slot serves the next request.
Return(p) ==
    /\ pc[p] = "done"
    /\ Step(p, "idle", NoLoc)
    /\ UNCHANGED <<catalog, carts, orders, payments, identity>>

\* ---------------------------------------------------------------- catalog
\* GET /products/{id}: only active products are found.
get_product(product_id) ==
    IF catalog[product_id].is_active
    THEN [found |-> TRUE, is_active |-> TRUE,
          stock |-> catalog[product_id].stock, price |-> catalog[product_id].price]
    ELSE NoProduct

\* What fetch_product can end with: the product, 404, or no answer.
fetch_product(product_id) ==
    { [kind |-> IF get_product(product_id).found THEN "ok" ELSE "not_found",
       product |-> get_product(product_id)],
      [kind |-> "unreachable", product |-> NoProduct] }

update_product(product_id, price, stock) ==
    /\ catalog[product_id].is_active
    /\ catalog' = [catalog EXCEPT ![product_id].price = float_(price),
                                  ![product_id].stock = stock]
    /\ catalog' # catalog
    /\ UNCHANGED <<carts, orders, payments, pc, loc, identity>>

delete_product(product_id) ==
    /\ catalog[product_id].is_active
    /\ catalog' = [catalog EXCEPT ![product_id].is_active = FALSE]
    /\ UNCHANGED <<carts, orders, payments, pc, loc, identity>>

\* ------------------------------------------------------------------- cart
NoCart == [exists |-> FALSE, items |-> <<>>]

IndexOf(items, product_id) ==
    IF \E k \in DOMAIN items : items[k].product_id = product_id
    THEN CHOOSE k \in DOMAIN items :
           /\ items[k].product_id = product_id
           /\ \A j \in DOMAIN items : items[j].product_id = product_id => k <= j
    ELSE 0

\* $pull: every element with that product_id goes.
Pull(items, product_id) == SelectSeq(items, LAMBDA it : it.product_id # product_id)

\* get_cart: find_one; a missing cart is inserted next.
get_cart_find(p, u) ==
    /\ pc[p] = "idle"
    /\ IF carts[u].exists
       THEN Finish(p, [Request("view", u) EXCEPT !.items = carts[u].items,
                          !.total_amount = SumItems(carts[u].items),
                          !.total = SumItems(carts[u].items)], 200, "cart")
       ELSE Step(p, "gc_insert", Request("view", u))
    /\ UNCHANGED <<catalog, carts, orders, payments, identity>>

\* insert_one under the unique index on user_id, then find_one and total.
get_cart_insert(p) ==
    /\ pc[p] = "gc_insert"
    /\ IF carts[loc[p].user].exists
       THEN /\ Finish(p, loc[p], 500, "duplicate_key")
            /\ UNCHANGED carts
       ELSE /\ carts' = [carts EXCEPT ![loc[p].user] = [exists |-> TRUE, items |-> <<>>]]
            /\ Finish(p, loc[p], 200, "cart")
    /\ UNCHANGED <<catalog, orders, payments, identity>>

\* add_to_cart, 1. Fetch product to validate and get price.  The exceptions
\* fetch_product raises are not imported by the orders service: 500.
add_to_cart_fetch(p, u, product_id, quantity) ==
    /\ pc[p] = "idle"
    /\ LET l == [Request("add", u) EXCEPT !.product_id = product_id,
                                          !.quantity = quantity] IN
       \E r \in fetch_product(product_id) :
         IF r.kind # "ok" THEN Finish(p, l, 500, r.kind)
         ELSE IF ~r.product.is_active THEN Finish(p, l, 400, "not_active")
         ELSE IF r.product.stock < quantity THEN Finish(p, l, 400, "insufficient_stock")
         ELSE Step(p, "add_find", [l EXCEPT !.product = r.product])
    /\ UNCHANGED <<catalog, carts, orders, payments, identity>>

\* 2. Get or create cart
add_to_cart_find(p) ==
    /\ pc[p] = "add_find"
    /\ IF carts[loc[p].user].exists
       THEN Step(p, "add_save", [loc[p] EXCEPT !.items = carts[loc[p].user].items])
       ELSE Step(p, "add_insert", loc[p])
    /\ UNCHANGED <<catalog, carts, orders, payments, identity>>

add_to_cart_insert(p) ==
    /\ pc[p] = "add_insert"
    /\ IF carts[loc[p].user].exists
       THEN /\ Finish(p, loc[p], 500, "duplicate_key")
            /\ UNCHANGED carts
       ELSE /\ carts' = [carts EXCEPT ![loc[p].user] = [exists |-> TRUE, items |-> <<>>]]
            /\ Step(p, "add_save", [loc[p] EXCEPT !.items = <<>>])
    /\ UNCHANGED <<catalog, orders, payments, identity>>

\* 3. Update items: the list the handler builds in memory.
AddItemAppending(current_items, product_id, quantity, product) ==
    Append(current_items, [product_id |-> product_id, quantity |-> quantity,
                           price |-> float_(product.price)])

AddItemOverwriting(current_items, product_id, quantity, product) ==
    LET k == IndexOf(current_items, product_id) IN
    IF k # 0
    THEN [current_items EXCEPT ![k].quantity = quantity,
                               ![k].price = float_(product.price)]
    ELSE Append(current_items, [product_id |-> product_id, quantity |-> quantity,
                                price |-> float_(product.price)])

AddItemKeepingPrice(current_items, product_id, quantity, product) ==
    LET k == IndexOf(current_items, product_id) IN
    IF k # 0
    THEN [current_items EXCEPT ![k].quantity = current_items[k].quantity + quantity]
    ELSE Append(current_items, [product_id |-> product_id, quantity |-> quantity,
                                price |-> float_(product.price)])

AddItem(current_items, product_id, quantity, product) ==
    LET k == IndexOf(current_items, product_id) IN
    IF k # 0
    THEN [current_items EXCEPT ![k].quantity = current_items[k].quantity + quantity,
                               ![k].price = float_(product.price)]
    ELSE Append(current_items, [product_id |-> product_id, quantity |-> quantity,
                                price |-> float_(product.price)])

RECURSIVE TotalQuantity(_)
TotalQuantity(items) ==
    IF items = <<>> THEN 0 ELSE Head(items).quantity + TotalQuantity(Tail(items))

\* 4. Save, as one atomic update of the stored list.
add_to_cart_save_atomic(p) ==
    /\ pc[p] = "add_save"
    /\ TotalQuantity(AddItem(carts[loc[p].user].items, loc[p].product_id, loc[p].quantity,
                             loc[p].product)) <= 2 * MaxQty
    /\ carts' = [carts EXCEPT ![loc[p].user].items =
                     AddItem(carts[loc[p].user].items, loc[p].product_id, loc[p].quantity,
                             loc[p].product)]
    /\ Finish(p, [loc[p] EXCEPT !.before =
                     IF carts[loc[p].user].items = loc[p].items THEN "as_read" ELSE "changed"],
              500, "get_cart_call")
    /\ UNCHANGED <<catalog, orders, payments, identity>>

\* 4. Save ($set items), then "return await get_cart(user)": get_cart takes
\* (request, user), so the call raises and the request ends 500 with the cart
\* saved.  Quantities accumulate without limit; the guard caps them.
\* before records whether the stored list was still the list the add had
\* read when it saved.
add_to_cart_save(p) ==
    /\ pc[p] = "add_save"
    /\ TotalQuantity(AddItem(loc[p].items, loc[p].product_id, loc[p].quantity,
                             loc[p].product)) <= 2 * MaxQty
    /\ carts' = [carts EXCEPT ![loc[p].user].items =
                     AddItem(loc[p].items, loc[p].product_id, loc[p].quantity, loc[p].product)]
    /\ Finish(p, [loc[p] EXCEPT !.before =
                     IF carts[loc[p].user].items = loc[p].items THEN "as_read" ELSE "changed"],
              500, "get_cart_call")
    /\ UNCHANGED <<catalog, orders, payments, identity>>

\* update_cart_item.  NotFoundException is not imported by the orders
\* service: raising it is a NameError, answered 500.
update_cart_item_find(p, u, product_id, quantity) ==
    /\ pc[p] = "idle"
    /\ LET l == [Request("update", u) EXCEPT !.product_id = product_id,
                                             !.quantity = quantity]
           k == IndexOf(carts[u].items, product_id) IN
       IF ~carts[u].exists THEN Finish(p, l, 500, "cart_not_found")
       ELSE IF k = 0 THEN Finish(p, l, 500, "item_not_found")
       ELSE Step(p, "upd_save",
                 [l EXCEPT !.items = [carts[u].items EXCEPT ![k].quantity = quantity]])
    /\ UNCHANGED <<catalog, carts, orders, payments, identity>>

update_cart_item_save(p) ==
    /\ pc[p] = "upd_save"
    /\ carts' = [carts EXCEPT ![loc[p].user].items = loc[p].items]
    /\ Finish(p, loc[p], 500, "get_cart_call")
    /\ UNCHANGED <<catalog, orders, payments, identity>>

\* remove_cart_item: one $pull; update_one on a missing cart matches nothing.
remove_cart_item(p, u, product_id) ==
    /\ pc[p] = "idle"
    /\ carts' = [carts EXCEPT ![u].items = Pull(carts[u].items, product_id)]
    /\ Finish(p, [Request("remove", u) EXCEPT !.product_id = product_id],
              500, "get_cart_call")
    /\ UNCHANGED <<catalog, orders, payments, identity>>

clear_cart(p, u) ==
    /\ pc[p] = "idle"
    /\ carts' = [carts EXCEPT ![u].items = <<>>]
    /\ Finish(p, Request("clear", u), 200, "cleared")
    /\ UNCHANGED <<catalog, orders, payments, identity>>

\* ----------------------------------------------------------------- orders
\* Requests that may still insert an order: caps the orders collection.
Creating == {q \in Procs : pc[q] \in {"co_validate", "co_insert"}}

\* create_order, 1. Get Cart
create_order_read(p, u) ==
    /\ pc[p] = "idle"
    /\ Len(orders) + Cardinality(Creating) < MaxOrders
    /\ IF ~carts[u].exists \/ carts[u].items = <<>>
       THEN Finish(p, Request("create", u), 400, "cart_empty")
       ELSE Step(p, "co_validate",
                 [Request("create", u) EXCEPT !.items = carts[u].items, !.i = 1])
    /\ UNCHANGED <<catalog, carts, orders, payments, identity>>

\* "Use snapshot price"
LinePriceFetched(item, product) == Decimal_str(product.price)

LinePrice(item, product) == Decimal_str(item.price)

OrderItem(item, product) ==
    [product_id |-> item.product_id, quantity |-> item.quantity,
     price |-> LinePrice(item, product)]

\* if not product["is_active"] or product["stock"] < item["quantity"]
UnavailableInactiveOnly(item, product) == ~product.is_active

Unavailable(item, product) == ~product.is_active \/ product.stock < item.quantity

\* total_amount += price * item["quantity"]
LineTotalNoQuantity(price, quantity) == price

LineTotal(price, quantity) == price * quantity

\* 2. Validate Items & Calculate Total: one pass of the loop, one fetch.
create_order_validate(p) ==
    /\ pc[p] = "co_validate"
    /\ LET item == loc[p].items[loc[p].i] IN
       \E r \in fetch_product(item.product_id) :
         IF r.kind # "ok" THEN Finish(p, loc[p], 500, r.kind)
         ELSE IF Unavailable(item, r.product) THEN Finish(p, loc[p], 400, "unavailable")
         ELSE Step(p, IF loc[p].i = Len(loc[p].items) THEN "co_insert" ELSE "co_validate",
                   [loc[p] EXCEPT
                      !.total_amount = loc[p].total_amount
                                       + LineTotal(LinePrice(item, r.product), item.quantity),
                      !.order_items = Append(loc[p].order_items, OrderItem(item, r.product)),
                      !.i = loc[p].i + 1])
    /\ UNCHANGED <<catalog, carts, orders, payments, identity>>

\* The document create_order inserts: prices and total as floats.
OrderDoc(id, user_id, order_items, total_amount) ==
    [id |-> id, user_id |-> user_id,
     items |-> [k \in DOMAIN order_items |->
                  [order_items[k] EXCEPT !.price = float_(order_items[k].price)]],
     total_amount |-> float_(total_amount), status |-> "pending", payment_id |-> 0]

\* 3. Create Order
create_order_insert_reserving(p) ==
    /\ pc[p] = "co_insert"
    /\ orders' = Append(orders, OrderDoc(Len(orders) + 1, loc[p].user,
                                         loc[p].order_items, loc[p].total_amount))
    /\ catalog' = [x \in Products |->
                     [catalog[x] EXCEPT !.stock =
                        IF \E k \in DOMAIN loc[p].items : loc[p].items[k].product_id = x
                        THEN 0 ELSE catalog[x].stock]]
    /\ Step(p, "co_clear", [loc[p] EXCEPT !.order_id = Len(orders) + 1])
    /\ UNCHANGED <<carts, payments, identity>>

create_order_insert(p) ==
    /\ pc[p] = "co_insert"
    /\ orders' = Append(orders, OrderDoc(Len(orders) + 1, loc[p].user,
                                         loc[p].order_items, loc[p].total_amount))
    /\ Step(p, "co_clear", [loc[p] EXCEPT !.order_id = Len(orders) + 1])
    /\ UNCHANGED <<catalog, carts, payments, identity>>

ClearedCartDeleted(cart) == NoCart

ClearedCart(cart) == [cart EXCEPT !.items = <<>>]

\* 4. Clear Cart, and the response: the order as it is read back.
create_order_clear(p) ==
    /\ pc[p] = "co_clear"
    /\ carts' = [carts EXCEPT ![loc[p].user] = ClearedCart(carts[loc[p].user])]
    /\ Finish(p, [loc[p] EXCEPT !.order = orders[loc[p].order_id]], 200, "order_created")
    /\ UNCHANGED <<catalog, orders, payments, identity>>

\* find_one({_id, user_id}) / find_one({_id})
FindOrder(order_id, user_id) ==
    IF order_id \in DOMAIN orders /\ orders[order_id].user_id = user_id
    THEN orders[order_id] ELSE NoOrder

FindOrderById(order_id) ==
    IF order_id \in DOMAIN orders THEN orders[order_id] ELSE NoOrder

\* cancel_order: the lookup and the pending check
cancel_order_find(p, u, order_id) ==
    /\ pc[p] = "idle"
    /\ LET l == [Request("cancel", u) EXCEPT !.order_id = order_id] IN
       IF FindOrder(order_id, u).id = 0 THEN Finish(p, l, 500, "order_not_found")
       ELSE IF FindOrder(order_id, u).status # "pending" THEN Finish(p, l, 400, "not_pending")
       ELSE Step(p, "cn_update", l)
    /\ UNCHANGED <<catalog, carts, orders, payments, identity>>

\* update_one({_id}, $set status): the filter names the id alone.
CancelWriteEmptiesOrder(ords, order_id) ==
    [ords EXCEPT ![order_id].status = "cancelled", ![order_id].items = <<>>,
                 ![order_id].total_amount = 0]

CancelWrite(ords, order_id) == [ords EXCEPT ![order_id].status = "cancelled"]

\* The write, and the response: the order as it is read back.  before is the
\* stored status the write replaces.
cancel_order_update(p) ==
    /\ pc[p] = "cn_update"
    /\ orders' = CancelWrite(orders, loc[p].order_id)
    /\ Finish(p, [loc[p] EXCEPT !.before = orders[loc[p].order_id].status,
                                !.order = orders'[loc[p].order_id]], 200, "order_cancelled")
    /\ UNCHANGED <<catalog, carts, payments, identity>>

\* PUT /orders/{id}/status: find_one, update_one, find_one.  Orders are never
\* deleted, so the first find_one cannot be outdated by the time of the write
\* and the handler is one step.
StatusWrite(ords, order_id, status, payment_id) ==
    [ords EXCEPT ![order_id].status = status, ![order_id].payment_id = payment_id]

StatusHandler(order_id, status, payment_id) ==
    IF FindOrderById(order_id).id = 0 THEN orders
    ELSE StatusWrite(orders, order_id, status, payment_id)

\* The endpoint is open to every caller: no get_current_user.
update_order_status(p, order_id, status) ==
    /\ pc[p] = "idle"
    /\ orders' = StatusHandler(order_id, sanitize_input(status), 0)
    /\ LET l == [Request("status", "none") EXCEPT !.order_id = order_id,
                    !.status = sanitize_input(status),
                    !.before = FindOrderById(order_id).status,
                    !.order = IF order_id \in DOMAIN orders THEN orders'[order_id]
                              ELSE NoOrder] IN
       IF FindOrderById(order_id).id = 0 THEN Finish(p, l, 500, "order_not_found")
       ELSE Finish(p, l, 200, "status_updated")
    /\ UNCHANGED <<catalog, carts, payments, identity>>

\* --------------------------------------------------------------- payments
\* find_one({"order_id": ...}): the idempotency lookup
NoLookup(order_id) == NoPayment

FindPaymentByOrder(order_id) ==
    IF \E k \in DOMAIN payments : payments[k].order_id = order_id
    THEN payments[CHOOSE k \in DOMAIN payments :
                    /\ payments[k].order_id = order_id
                    /\ \A j \in DOMAIN payments : payments[j].order_id = order_id => k <= j]
    ELSE NoPayment

\* uuid4: a transaction id no payment holds.
FreshTxn == Len(payments) + 1

\* A gate that sends the status callback again for the row it finds.
process_payment_lookup_resending(p, u, order_id, method) ==
    /\ pc[p] = "idle"
    /\ LET l == [Request("process", u) EXCEPT !.order_id = order_id,
                    !.payment_method = method,
                    !.existed = \E k \in DOMAIN payments : payments[k].order_id = order_id] IN
       IF FindPaymentByOrder(order_id).id # 0
       THEN /\ Finish(p, [l EXCEPT !.payment = FindPaymentByOrder(order_id)],
                      200, "already_processed")
            /\ orders' = StatusHandler(order_id,
                             IF FindPaymentByOrder(order_id).status = "completed"
                             THEN "completed" ELSE "cancelled",
                             FindPaymentByOrder(order_id).id)
       ELSE /\ Step(p, "pp_fetch", l)
            /\ UNCHANGED orders
    /\ UNCHANGED <<catalog, carts, payments, identity>>

\* process_payment, 2. Idempotency Check.  existed records what the store
\* held at the lookup.
process_payment_lookup(p, u, order_id, method) ==
    /\ pc[p] = "idle"
    /\ LET l == [Request("process", u) EXCEPT !.order_id = order_id,
                    !.payment_method = method,
                    !.existed = \E k \in DOMAIN payments : payments[k].order_id = order_id] IN
       IF FindPaymentByOrder(order_id).id # 0
       THEN Finish(p, [l EXCEPT !.payment = FindPaymentByOrder(order_id)],
                   200, "already_processed")
       ELSE Step(p, "pp_fetch", l)
    /\ UNCHANGED <<catalog, carts, orders, payments, identity>>

\* process_payment, 1. Verify Authentication, as a call that waits for the
\* auth service without a timeout.
process_payment_waiting(p, u, order_id, method) ==
    \/ process_payment_lookup(p, u, order_id, method)
    \/ /\ pc[p] = "idle"
       /\ \/ Finish(p, [Request("process", u) EXCEPT !.order_id = order_id,
                                                     !.payment_method = method],
                     401, "invalid_credentials")
          \/ Step(p, "pp_auth", [Request("process", u) EXCEPT !.order_id = order_id,
                                                             !.payment_method = method])
       /\ UNCHANGED <<catalog, carts, orders, payments, identity>>

\* process_payment, 1. Verify Authentication: get_current_user asks the auth
\* service, which names the caller u (the request goes on with the
\* idempotency check), rejects the token (401), or does not answer within the
\* client's timeout (503).
process_payment(p, u, order_id, method) ==
    \/ process_payment_lookup(p, u, order_id, method)
    \/ /\ pc[p] = "idle"
       /\ \/ Finish(p, [Request("process", u) EXCEPT !.order_id = order_id,
                                                     !.payment_method = method],
                     401, "invalid_credentials")
          \/ Finish(p, [Request("process", u) EXCEPT !.order_id = order_id,
                                                     !.payment_method = method],
                     503, "auth_unavailable")
       /\ UNCHANGED <<catalog, carts, orders, payments, identity>>

\* get_order_details, with an order coordinator that returns the order to any
\* caller.
get_order_details_to_anyone(order_id, user_id) ==
    { [kind |-> IF FindOrderById(order_id).id # 0 THEN "ok" ELSE "http_error",
       order |-> FindOrderById(order_id)],
      [kind |-> "unreachable", order |-> NoOrder] }

\* get_order_details: GET /orders/{id} with the caller's own credentials.
\* The order coordinator's 404 is a NameError there (500), which the client
\* turns into 400 "Could not verify order".
get_order_details(order_id, user_id) ==
    { [kind |-> IF FindOrder(order_id, user_id).id # 0 THEN "ok" ELSE "http_error",
       order |-> FindOrder(order_id, user_id)],
      [kind |-> "unreachable", order |-> NoOrder] }

\* if order["status"] != "pending"
OrderNotPendingCancelledOnly(order) == order.status = "cancelled"

OrderNotPending(order) == order.status # "pending"

\* 3. Verify Order & Get Amount
process_payment_fetch(p) ==
    /\ pc[p] = "pp_fetch"
    /\ \E r \in get_order_details(loc[p].order_id, loc[p].user) :
         IF r.kind = "unreachable" THEN Finish(p, loc[p], 503, "orders_unavailable")
         ELSE IF r.kind = "http_error" THEN Finish(p, loc[p], 400, "could_not_verify_order")
         ELSE IF OrderNotPending(r.order) THEN Finish(p, loc[p], 400, "order_not_pending")
         ELSE Step(p, "pp_sleep",
                   [loc[p] EXCEPT !.total_amount = Decimal_str(r.order.total_amount)])
    /\ UNCHANGED <<catalog, carts, orders, payments, identity>>

PaymentDoc(id, l, is_success, transaction_id) ==
    [id |-> id, order_id |-> l.order_id, user_id |-> l.user,
     amount |-> float_(l.total_amount),
     status |-> IF is_success THEN "completed" ELSE "failed",
     transaction_id |-> transaction_id, payment_method |-> l.payment_method]

\* create_index("order_id", unique=True): the insert of a second row for an
\* order raises DuplicateKeyError.
NoUniqueIndex(order_id) == TRUE

UniqueIndexAdmits(order_id) == \A k \in DOMAIN payments : payments[k].order_id # order_id

\* insert_one: the collection gains the document.
insert_one_replacing(rows, doc) ==
    IF rows = <<>> THEN <<doc>> ELSE [rows EXCEPT ![Len(rows)] = doc]

insert_one(rows, doc) == Append(rows, doc)

\* 4. Simulate Processing, 5. Record Payment: the sleep is over, the outcome
\* is drawn and the row inserted with no await in between.
process_payment_insert(p) ==
    /\ pc[p] = "pp_sleep"
    /\ \E is_success \in BOOLEAN :
         IF UniqueIndexAdmits(loc[p].order_id)
         THEN /\ payments' = insert_one(payments, PaymentDoc(Len(payments) + 1, loc[p],
                                                             is_success, FreshTxn))
              /\ Step(p, "pp_callback",
                      [loc[p] EXCEPT !.is_success = is_success, !.drew = TRUE,
                                     !.payment_id = Len(payments) + 1])
         ELSE /\ Finish(p, [loc[p] EXCEPT !.is_success = is_success, !.drew = TRUE],
                        500, "duplicate_key")
              /\ UNCHANGED payments
    /\ UNCHANGED <<catalog, carts, orders, identity>>

\* order_status = "completed" if is_success else "cancelled"
OrderStatusSwapped(is_success) == IF is_success THEN "cancelled" ELSE "completed"

OrderStatusFor(is_success) == IF is_success THEN "completed" ELSE "cancelled"

\* 6. Update Order Status and the response.  The PUT is handled by the order
\* coordinator ("delivered"), or fails to connect, which is swallowed
\* ("lost"), or is answered with an error status, which raise_for_status
\* raises through the handler ("http_error").
process_payment_callback(p) ==
    /\ pc[p] = "pp_callback"
    /\ LET l == [loc[p] EXCEPT !.status = OrderStatusFor(loc[p].is_success),
                               !.payment = payments[loc[p].payment_id]] IN
       \/ /\ orders' = StatusHandler(l.order_id, l.status, l.payment_id)
          /\ Finish(p, [l EXCEPT !.called = "delivered",
                                 !.before = FindOrderById(l.order_id).status,
                                 !.order = orders'[l.order_id]],
                    200, IF l.is_success THEN "payment_successful" ELSE "payment_failed")
       \/ /\ Finish(p, [l EXCEPT !.called = "lost"],
                    200, IF l.is_success THEN "payment_successful" ELSE "payment_failed")
          /\ UNCHANGED orders
       \/ /\ Finish(p, [l EXCEPT !.called = "http_error", !.payment = NoPayment],
                    500, "callback_http_error")
          /\ UNCHANGED orders
    /\ UNCHANGED <<catalog, carts, payments, identity>>

\* GET /payments/order/{order_id}: find_one, then the owner check.
get_payment_by_order(p, u, order_id) ==
    /\ pc[p] = "idle"
    /\ LET l == [Request("by_order", u) EXCEPT !.order_id = order_id]
           payment == FindPaymentByOrder(order_id) IN
       IF payment.id = 0 THEN Finish(p, l, 404, "payment_not_found")
       ELSE IF payment.user_id # u THEN Finish(p, l, 401, "not_authorized")
       ELSE Finish(p, [l EXCEPT !.payment = payment], 200, "payment")
    /\ UNCHANGED <<catalog, carts, orders, payments, identity>>

\* find_one({"_id": ...})
FindPayment(payment_id) ==
    IF payment_id \in DOMAIN payments THEN payments[payment_id] ELSE NoPayment

\* GET /payments/{payment_id}
get_payment(p, u, payment_id) ==
    /\ pc[p] = "idle"
    /\ LET l == [Request("by_id", u) EXCEPT !.payment_id = payment_id]
           payment == FindPayment(payment_id) IN
       IF payment.id = 0 THEN Finish(p, l, 404, "payment_not_found")
       ELSE IF payment.user_id # u THEN Finish(p, l, 401, "not_authorized")
       ELSE Finish(p, [l EXCEPT !.payment = payment], 200, "payment")
    /\ UNCHANGED <<catalog, carts, orders, payments, identity>>

\* --------------------------------------------------------------- identity
\* Time is counted in minutes since the service started.  A token is the
\* claims it carries and the key that signed it; a token made or altered
\* without a key of the service carries the key "forged".
jwt_encode(claims, key) == [claims |-> claims, key |-> key]

\* jwt.decode: the signature must be made with the key and exp must not lie
\* before the clock; NoClaims stands for JWTError.
jwt_decode(token, key) ==
    IF token.key = key /\ ~(token.claims.exp < now) THEN token.claims ELSE NoClaims

\* uuid4: an id no issued token carries.
FreshJti == Len(issued) + 1

create_access_token(sub, role, jti) ==
    jwt_encode([sub |-> sub, role |-> role, jti |-> jti,
                exp |-> now + ACCESS_TOKEN_EXPIRE_MINUTES], SECRET_KEY)

create_refresh_token(sub, role, jti) ==
    jwt_encode([sub |-> sub, role |-> role, jti |-> jti,
                exp |-> now + REFRESH_TOKEN_EXPIRE_DAYS * 24 * 60], REFRESH_SECRET_KEY)

\* verify_token, as a check that accepts either key of the service.
verify_token_either_key(token) ==
    IF jwt_decode(token, SECRET_KEY) # NoClaims THEN jwt_decode(token, SECRET_KEY)
    ELSE jwt_decode(token, REFRESH_SECRET_KEY)

verify_token(token) == jwt_decode(token, SECRET_KEY)

\* verify_refresh_token is imported from shared.utils, which does not define
\* it: the counterpart of verify_token for the refresh key.
verify_refresh_token(token) == jwt_decode(token, REFRESH_SECRET_KEY)

lower(scheme) == IF scheme = "Bearer" THEN "bearer" ELSE "basic"

\* require_auth: the Authorization header is "<scheme> <param>".
require_auth(scheme, param) ==
    IF lower(scheme) # "bearer" THEN NoClaims ELSE verify_token(param)

\* datetime.fromtimestamp(exp): the host's local wall clock time, which the
\* driver stores as if it were UTC.
datetime_fromtimestamp(exp) == exp + tz

\* find_one({"jti": ...})
find_revoked_none(jti) == FALSE

find_revoked(jti) == \E d \in revoked_tokens : d.jti = jti

\* What a client can present: the tokens issued, and forgeries of them with
\* a later expiry.
Forge(token) ==
    [token EXCEPT !.key = "forged",
                  !.claims.exp = token.claims.exp + ACCESS_TOKEN_EXPIRE_MINUTES]

Presented ==
    {issued[k] : k \in DOMAIN issued} \cup {Forge(issued[k]) : k \in DOMAIN issued}

\* The clock of the host.
Tick ==
    /\ now < MaxTime
    /\ now' = now + 1
    /\ UNCHANGED <<market, pc, loc, tz, issued, revoked_tokens>>

\* The TTL index on exp (expireAfterSeconds=0): the store's monitor deletes
\* the documents whose exp is reached.
ttl_prune ==
    /\ \E d \in revoked_tokens : d.exp <= now
    /\ revoked_tokens' = {d \in revoked_tokens : ~(d.exp <= now)}
    /\ UNCHANGED <<market, pc, loc, now, tz, issued>>

\* POST /login: with the right password a pair of tokens is issued.
login(p, u, password_ok) ==
    /\ pc[p] = "idle"
    /\ Len(issued) < 2 * MaxLogins
    /\ IF ~password_ok
       THEN /\ Finish(p, Request("login", u), 401, "incorrect_credentials")
            /\ UNCHANGED issued
       ELSE LET access == create_access_token(u, "user", FreshJti)
                refresh == create_refresh_token(u, "user", FreshJti + 1) IN
            /\ issued' = issued \o <<access, refresh>>
            /\ Finish(p, [Request("login", u) EXCEPT !.token = access,
                                                     !.refresh_token = refresh],
                      200, "logged_in")
    /\ UNCHANGED <<market, now, tz, revoked_tokens>>

\* GET /verify: the require_auth dependency.  existed records whether a
\* finished logout had revoked the token before the call began.
verify_auth(p, scheme, token) ==
    /\ pc[p] = "idle"
    /\ LET l == [Request("verify", "none") EXCEPT !.scheme = scheme, !.token = token,
                    !.payload = require_auth(scheme, token),
                    !.existed = \E q \in Procs :
                                  /\ pc[q] = "done" /\ loc[q].kind = "logout"
                                  /\ loc[q].code = 200 /\ loc[q].token = token] IN
       IF l.payload = NoClaims THEN Finish(p, l, 401, "could_not_validate")
       ELSE Step(p, "vf_find", l)
    /\ UNCHANGED <<market, identity>>

\* "Check Blacklist" and the response.
verify_find(p) ==
    /\ pc[p] = "vf_find"
    /\ IF find_revoked(loc[p].payload.jti)
       THEN Finish(p, [loc[p] EXCEPT !.payload = NoClaims], 401, "token_revoked")
       ELSE Finish(p, loc[p], 200, "token_valid")
    /\ UNCHANGED <<market, identity>>

\* POST /refresh: the refresh token in the body is decoded, its jti looked up
\* in the revocation list, and a new pair is issued; nothing is written to
\* the revocation list.  existed records whether a finished refresh had
\* answered 200 for the same body before the call began.
refresh_token(p, token) ==
    /\ pc[p] = "idle"
    /\ Len(issued) + 2 <= MaxIssued
    /\ LET payload == verify_refresh_token(token)
           l == [Request("refresh", "none") EXCEPT !.body = token, !.payload = payload,
                    !.existed = \E q \in Procs :
                                  /\ pc[q] = "done" /\ loc[q].kind = "refresh"
                                  /\ loc[q].code = 200 /\ loc[q].body = token] IN
       IF payload = NoClaims
       THEN /\ Finish(p, l, 401, "could_not_validate")
            /\ UNCHANGED issued
       ELSE IF find_revoked(payload.jti)
       THEN /\ Finish(p, l, 401, "refresh_revoked")
            /\ UNCHANGED issued
       ELSE LET access == create_access_token(payload.sub, payload.role, FreshJti)
                refresh == create_refresh_token(payload.sub, payload.role, FreshJti + 1) IN
            /\ issued' = issued \o <<access, refresh>>
            /\ Finish(p, [l EXCEPT !.token = access, !.refresh_token = refresh],
                      200, "refreshed")
    /\ UNCHANGED <<market, now, tz, revoked_tokens>>

\* POST /logout: require_auth, then "Revoke Access Token".
logout_access(p, scheme, token, refresh) ==
    /\ pc[p] = "idle"
    /\ LET l == [Request("logout", "none") EXCEPT !.scheme = scheme, !.token = token,
                    !.refresh_token = refresh,
                    !.payload = require_auth(scheme, token)] IN
       IF l.payload = NoClaims
       THEN /\ Finish(p, l, 401, "could_not_validate")
            /\ UNCHANGED revoked_tokens
       ELSE /\ revoked_tokens' = revoked_tokens \cup
                  {[jti |-> l.payload.jti, exp |-> datetime_fromtimestamp(l.payload.exp)]}
            /\ Step(p, "lo_refresh", l)
    /\ UNCHANGED <<market, now, tz, issued>>

\* "Revoke Refresh Token", as a logout that takes back the access token's
\* entry when the refresh token fails.
logout_refresh_undoing(p) ==
    /\ pc[p] = "lo_refresh"
    /\ LET refresh_payload == verify_refresh_token(loc[p].refresh_token) IN
       IF refresh_payload = NoClaims
       THEN /\ Finish(p, loc[p], 401, "could_not_validate")
            /\ revoked_tokens' = {e \in revoked_tokens : e.jti # loc[p].payload.jti}
       ELSE /\ revoked_tokens' = revoked_tokens \cup
                  {[jti |-> refresh_payload.jti,
                    exp |-> datetime_fromtimestamp(refresh_payload.exp)]}
            /\ Finish(p, loc[p], 200, "logged_out")
    /\ UNCHANGED <<market, now, tz, issued>>

\* "Revoke Refresh Token" and the response.
logout_refresh(p) ==
    /\ pc[p] = "lo_refresh"
    /\ LET refresh_payload == verify_refresh_token(loc[p].refresh_token) IN
       IF refresh_payload = NoClaims
       THEN /\ Finish(p, loc[p], 401, "could_not_validate")
            /\ UNCHANGED revoked_tokens
       ELSE /\ revoked_tokens' = revoked_tokens \cup
                  {[jti |-> refresh_payload.jti,
                    exp |-> datetime_fromtimestamp(refresh_payload.exp)]}
            /\ Finish(p, loc[p], 200, "logged_out")
    /\ UNCHANGED <<market, now, tz, issued>>

\* ---------------------------------------------------------------- gateway
\* The paths verify_token lets through without a token.
PublicPathsWithCart ==
    {"/api/auth/login", "/api/auth/register", "/health", "/docs", "/openapi.json",
     "/api/cart"}

PublicPaths ==
    {"/api/auth/login", "/api/auth/register", "/health", "/docs", "/openapi.json"}

\* The paths of the requests sent through forward_request.
Paths == {"/api/auth/login", "/api/cart"}

\* The x-user-id and x-user-role headers a caller may send along.
SuppliedHeaders == {NoHeaders, [x_user_id |-> "u2", x_user_role |-> "admin"]}

\* GET {AUTH_SERVICE_URL}/verify with the caller's Authorization header: the
\* auth service answers 200 with the claims or an error status, or the call
\* fails in transport.
auth_verify(scheme, token) ==
    LET payload == require_auth(scheme, token) IN
    {[kind |-> "unreachable", data |-> NoClaims],
     IF payload # NoClaims /\ ~find_revoked(payload.jti)
     THEN [kind |-> "ok", data |-> payload]
     ELSE [kind |-> "rejected", data |-> NoClaims]}

\* The HTTPException verify_token raises when the verifier gave no claims.
VerifierFailureAlways401(kind) ==
    [code |-> 401, detail |-> "Invalid authentication credentials"]

VerifierFailure(kind) ==
    IF kind = "unreachable"
    THEN [code |-> 503, detail |-> "Auth service unavailable"]
    ELSE [code |-> 401, detail |-> "Invalid authentication credentials"]

\* headers["x-user-id"] = user["sub"]; headers["x-user-role"] = user["role"]
InjectIdentity(headers, user) ==
    [headers EXCEPT !.x_user_id = user.sub, !.x_user_role = user.role]

\* What the downstream service does with the forwarded request.
Downstream ==
    {[kind |-> "answer", code |-> c, body |-> b] :
        c \in {200, 401, 404}, b \in {"content_a", "content_b"}}
    \cup {[kind |-> "unreachable", code |-> 0, body |-> "none"]}

\* The response forward_request builds from the downstream call.
DownstreamResponseMasked(r) ==
    IF r.kind = "unreachable" \/ r.code = 404
    THEN [code |-> 503, detail |-> "Service Unavailable"]
    ELSE [code |-> r.code, detail |-> r.body]

DownstreamResponse(r) ==
    IF r.kind = "unreachable"
    THEN [code |-> 503, detail |-> "Service Unavailable"]
    ELSE [code |-> r.code, detail |-> r.body]

\* forward_request up to the call of the verifier: the caller's headers are
\* copied, public paths need no token, a missing header is answered 401.
forward_request_receive(p, path, scheme, token, headers) ==
    /\ pc[p] = "idle"
    /\ LET l == [Request("forward", "none") EXCEPT !.path = path, !.scheme = scheme,
                    !.token = token, !.request_headers = headers,
                    !.headers = headers] IN
       IF path \in PublicPaths
       THEN Step(p, "fw_send", l)
       ELSE IF scheme = "none"
       THEN Finish(p, l, 401, "Missing Authorization header")
       ELSE Step(p, "fw_verify", l)
    /\ UNCHANGED <<market, identity>>

\* The answer of the verifier: the identity is injected, or the failure is
\* returned to the caller.
forward_request_verify(p) ==
    /\ pc[p] = "fw_verify"
    /\ \E r \in auth_verify(loc[p].scheme, loc[p].token) :
         LET l == [loc[p] EXCEPT !.verifier = r.kind] IN
         IF r.kind = "ok"
         THEN Step(p, "fw_send", [l EXCEPT !.payload = r.data,
                                           !.headers = InjectIdentity(@, r.data)])
         ELSE Finish(p, l, VerifierFailure(r.kind).code, VerifierFailure(r.kind).detail)
    /\ UNCHANGED <<market, identity>>

\* The one call of the downstream service and the response to the caller.
forward_request_send(p) ==
    /\ pc[p] = "fw_send"
    /\ \E r \in Downstream :
         Finish(p, [loc[p] EXCEPT !.answer = r,
                                  !.called = IF r.kind = "unreachable"
                                             THEN "lost" ELSE "delivered"],
                DownstreamResponse(r).code, DownstreamResponse(r).detail)
    /\ UNCHANGED <<market, identity>>

\* ------------------------------------------------------------ specifications
\* The auth service as it starts: nobody has logged in, the host is on UTC.
InitIdentity ==
    /\ now = 0
    /\ tz = 0
    /\ issued = <<>>
    /\ revoked_tokens = {}

Item(product_id, quantity, price) ==
    [product_id |-> product_id, quantity |-> quantity, price |-> float_(price)]

InitCatalog ==
    [x \in Products |-> [is_active |-> TRUE, stock |-> MaxQty,
                         price |-> float_(IF x = "p1" THEN 101 ELSE 250)]]

\* The carts two earlier adds per user leave: u1 holds two lines, u2 one.
FilledCarts ==
    [u \in Users |->
       [exists |-> TRUE,
        items |-> IF u = "u1" THEN <<Item("p1", 1, 101), Item("p2", MaxQty, 250)>>
                  ELSE <<Item("p1", MaxQty, 101)>>]]

\* The saga of one pending order: u1 has checked out the cart above.
Init ==
    /\ catalog = InitCatalog
    /\ carts = [FilledCarts EXCEPT !["u1"].items = <<>>]
    /\ orders = <<[id |-> 1, user_id |-> "u1", items |-> FilledCarts["u1"].items,
                   total_amount |-> float_(101 + MaxQty * 250), status |-> "pending",
                   payment_id |-> 0]>>
    /\ payments = <<>>
    /\ pc = [p \in Procs |-> "idle"]
    /\ loc = [p \in Procs |-> NoLoc]
    /\ InitIdentity

Next ==
    \/ \E p \in Procs : Return(p)
    \/ \E p \in Procs, u \in Users, o \in DOMAIN orders : cancel_order_find(p, u, o)
    \/ \E p \in Procs : cancel_order_update(p)
    \/ \E p \in Procs, o \in DOMAIN orders, s \in StatusInputs : update_order_status(p, o, s)
    \/ \E p \in Procs, u \in Users, o \in DOMAIN orders, m \in Methods :
          process_payment_lookup(p, u, o, m)
    \/ \E p \in Procs : process_payment_fetch(p)
    \/ \E p \in Procs : process_payment_insert(p)
    \/ \E p \in Procs : process_payment_callback(p)

Spec == Init /\ [][Next]_vars

\* Order creation from filled carts against a changing catalog.
InitCreate ==
    /\ catalog = InitCatalog
    /\ carts = FilledCarts
    /\ orders = <<>>
    /\ payments = <<>>
    /\ pc = [p \in Procs |-> "idle"]
    /\ loc = [p \in Procs |-> NoLoc]
    /\ InitIdentity

NextCreate ==
    \/ \E p \in Workers : Return(p)
    \/ \E x \in Products, c \in Prices, s \in Stocks : update_product(x, c, s)
    \/ \E x \in Products : delete_product(x)
    \/ \E p \in Workers, u \in Users : create_order_read(p, u)
    \/ \E p \in Workers : create_order_validate(p)
    \/ \E p \in Workers : create_order_insert(p)
    \/ \E p \in Workers : create_order_clear(p)

SpecCreate == InitCreate /\ [][NextCreate]_vars

\* One request at a time, every operation of the saga: u1 has checked out,
\* u2 still holds a cart.
Serial == {1}

NextSerial ==
    \/ \E p \in Serial : Return(p)
    \/ \E p \in Serial, u \in Users : get_cart_find(p, u)
    \/ \E p \in Serial, u \in Users, x \in Products, n \in Quantities :
          update_cart_item_find(p, u, x, n)
    \/ \E p \in Serial : update_cart_item_save(p)
    \/ \E p \in Serial, u \in Users, x \in Products : remove_cart_item(p, u, x)
    \/ \E p \in Serial, u \in Users : clear_cart(p, u)
    \/ \E p \in Serial, u \in Users : create_order_read(p, u)
    \/ \E p \in Serial : create_order_validate(p)
    \/ \E p \in Serial : create_order_insert(p)
    \/ \E p \in Serial : create_order_clear(p)
    \/ \E p \in Serial, u \in Users, o \in DOMAIN orders : cancel_order_find(p, u, o)
    \/ \E p \in Serial : cancel_order_update(p)
    \/ \E p \in Serial, o \in DOMAIN orders, s \in StatusInputs : update_order_status(p, o, s)
    \/ \E p \in Serial, u \in Users, o \in DOMAIN orders, m \in Methods :
          process_payment_lookup(p, u, o, m)
    \/ \E p \in Serial : process_payment_fetch(p)
    \/ \E p \in Serial : process_payment_insert(p)
    \/ \E p \in Serial : process_payment_callback(p)
    \/ \E p \in Serial, u \in Users, o \in DOMAIN orders : get_payment_by_order(p, u, o)
    \/ \E p \in Serial, u \in Users, k \in 1..MaxOrders : get_payment(p, u, k)

SpecSerial == Init /\ [][NextSerial]_vars

\* The auth service on a host of any zone, its clock running: u1 has logged
\* in at minute 0 and holds the pair of tokens issued then.
InitAuth ==
    /\ catalog = InitCatalog
    /\ carts = FilledCarts
    /\ orders = <<>>
    /\ payments = <<>>
    /\ pc = [p \in Procs |-> "idle"]
    /\ loc = [p \in Procs |-> NoLoc]
    /\ now = 0
    /\ tz \in UtcOffsets
    /\ issued = <<jwt_encode([sub |-> "u1", role |-> "user", jti |-> 1,
                              exp |-> ACCESS_TOKEN_EXPIRE_MINUTES], SECRET_KEY),
                  jwt_encode([sub |-> "u1", role |-> "user", jti |-> 2,
                              exp |-> REFRESH_TOKEN_EXPIRE_DAYS * 24 * 60],
                             REFRESH_SECRET_KEY)>>
    /\ revoked_tokens = {}

NextAuth ==
    \/ \E p \in Workers : Return(p)
    \/ Tick
    \/ ttl_prune
    \/ \E p \in Workers, sc \in Schemes, t \in Presented : verify_auth(p, sc, t)
    \/ \E p \in Workers : verify_find(p)
    \/ \E p \in Workers, sc \in Schemes, t \in Presented, r \in Presented :
          logout_access(p, sc, t, r)
    \/ \E p \in Workers : logout_refresh(p)

SpecAuth == InitAuth /\ [][NextAuth]_vars

\* Two concurrent requests on the cart of u1, who starts without a cart.
InitCart ==
    /\ catalog = InitCatalog
    /\ carts = [FilledCarts EXCEPT !["u1"] = NoCart]
    /\ orders = <<>>
    /\ payments = <<>>
    /\ pc = [p \in Procs |-> "idle"]
    /\ loc = [p \in Procs |-> NoLoc]
    /\ InitIdentity

NextCart ==
    \/ \E p \in Workers : Return(p)
    \/ \E p \in Workers : get_cart_find(p, "u1")
    \/ \E p \in Workers : get_cart_insert(p)
    \/ \E p \in Workers, x \in Products, n \in Quantities : add_to_cart_fetch(p, "u1", x, n)
    \/ \E p \in Workers : add_to_cart_find(p)
    \/ \E p \in Workers : add_to_cart_insert(p)
    \/ \E p \in Workers : add_to_cart_save(p)
    \/ \E p \in Workers, x \in Products, n \in Quantities :
          update_cart_item_find(p, "u1", x, n)
    \/ \E p \in Workers : update_cart_item_save(p)
    \/ \E p \in Workers, x \in Products : remove_cart_item(p, "u1", x)
    \/ \E p \in Workers : clear_cart(p, "u1")

SpecCart == InitCart /\ [][NextCart]_vars

\* Adds and updates on the cart of u1, one request at a time, while the
\* catalog changes (prices, stock sold out or refilled, p2 withdrawn): u1
\* holds two lines.
InitReprice ==
    /\ catalog = InitCatalog
    /\ carts = FilledCarts
    /\ orders = <<>>
    /\ payments = <<>>
    /\ pc = [p \in Procs |-> "idle"]
    /\ loc = [p \in Procs |-> NoLoc]
    /\ InitIdentity

NextReprice ==
    \/ \E p \in Serial : Return(p)
    \/ \E x \in Products, c \in Prices, s \in {0, MaxQty} : update_product(x, c, s)
    \/ delete_product("p2")
    \/ \E p \in Serial, x \in Products, n \in Quantities :
          add_to_cart_fetch(p, "u1", x, n)
    \/ \E p \in Serial : add_to_cart_find(p)
    \/ \E p \in Serial : add_to_cart_save(p)
    \/ \E p \in Serial, x \in Products, n \in Quantities :
          update_cart_item_find(p, "u1", x, n)
    \/ \E p \in Serial : update_cart_item_save(p)

SpecReprice == InitReprice /\ [][NextReprice]_vars

\* Concurrent process requests on the pending order of u1.  Every await of
\* the handler ends: the HTTP clients time out, the sleep lasts 2 seconds and
\* the event loop resumes every coroutine that is ready.
NextProcess ==
    \/ \E p \in Workers : Return(p)
    \/ \E p \in Workers, u \in Users, o \in DOMAIN orders, m \in Methods :
          process_payment(p, u, o, m)
    \/ \E p \in Workers : process_payment_fetch(p)
    \/ \E p \in Workers : process_payment_insert(p)
    \/ \E p \in Workers : process_payment_callback(p)

FairProcess ==
    \A p \in Workers :
      /\ WF_vars(process_payment_fetch(p))
      /\ WF_vars(process_payment_insert(p))
      /\ WF_vars(process_payment_callback(p))

SpecProcess == Init /\ [][NextProcess]_vars /\ FairProcess

\* Checkout of u1's filled cart on one slot while adds for u1 are served on
\* the other.
Adders == Workers \ Serial

NextCheckout ==
    \/ \E p \in Workers : Return(p)
    \/ \E p \in Serial : create_order_read(p, "u1")
    \/ \E p \in Serial : create_order_validate(p)
    \/ \E p \in Serial : create_order_insert(p)
    \/ \E p \in Serial : create_order_clear(p)
    \/ \E p \in Adders, x \in Products, n \in Quantities :
          add_to_cart_fetch(p, "u1", x, n)
    \/ \E p \in Adders : add_to_cart_find(p)
    \/ \E p \in Adders : add_to_cart_save(p)

SpecCheckout == InitCreate /\ [][NextCheckout]_vars

\* The cart of u1 viewed, one request at a time, for products priced 10.10
\* and 5.05: the cart holds any lines that adds and updates of up to
\* MaxQty + 1 pieces have left, each priced as add stores it.
ExamplePrice(x) == IF x = "p1" THEN 1010 ELSE 505

ExampleCarts ==
    {<<>>}
    \cup {<<Item(x, q, ExamplePrice(x))>> : x \in Products, q \in 1..(MaxQty + 1)}
    \cup {<<Item(x, q, ExamplePrice(x)), Item(y, r, ExamplePrice(y))>> :
             <<x, y>> \in {<<"p1", "p2">>, <<"p2", "p1">>},
             <<q, r>> \in (1..(MaxQty + 1)) \X (1..(MaxQty + 1))}

InitTotal ==
    /\ catalog = [x \in Products |-> [is_active |-> TRUE, stock |-> MaxQty,
                                      price |-> float_(ExamplePrice(x))]]
    /\ \E items \in ExampleCarts :
         carts = [u \in Users |-> IF u = "u1" THEN [exists |-> TRUE, items |-> items]
                                  ELSE NoCart]
    /\ orders = <<>>
    /\ payments = <<>>
    /\ pc = [p \in Procs |-> "idle"]
    /\ loc = [p \in Procs |-> NoLoc]
    /\ InitIdentity

NextTotal ==
    \/ \E p \in Serial : Return(p)
    \/ \E p \in Serial : get_cart_find(p, "u1")
    \/ \E p \in Serial, x \in Products, n \in Quantities :
          add_to_cart_fetch(p, "u1", x, n)
    \/ \E p \in Serial : add_to_cart_find(p)
    \/ \E p \in Serial : add_to_cart_save(p)
    \/ \E p \in Serial, x \in Products, n \in Quantities :
          update_cart_item_find(p, "u1", x, n)
    \/ \E p \in Serial : update_cart_item_save(p)

SpecTotal == InitTotal /\ [][NextTotal]_vars

\* Refresh and logout within minute 0, on the pair issued by the login and on
\* the pairs that refresh issues.
NextRefresh ==
    \/ \E p \in Workers : Return(p)
    \/ \E p \in Workers, k \in DOMAIN issued : refresh_token(p, issued[k])
    \/ \E p \in Workers, j \in DOMAIN issued, k \in DOMAIN issued :
          logout_access(p, "Bearer", issued[j], issued[k])
    \/ \E p \in Workers : logout_refresh(p)

SpecRefresh == InitAuth /\ [][NextRefresh]_vars

\* The gateway serving one request at a time in front of the auth service,
\* whose clock runs and whose callers log out.
NextGateway ==
    \/ \E p \in Serial : Return(p)
    \/ Tick
    \/ ttl_prune
    \/ \E p \in Serial, k \in DOMAIN issued :
          logout_access(p, "Bearer", issued[1], issued[k])
    \/ \E p \in Serial : logout_refresh(p)
    \/ \E p \in Serial, path \in Paths, h \in SuppliedHeaders :
          \/ forward_request_receive(p, path, "none", NoToken, h)
          \/ \E scheme \in Schemes, t \in Presented :
                forward_request_receive(p, path, scheme, t, h)
    \/ \E p \in Serial : forward_request_verify(p)
    \/ \E p \in Serial : forward_request_send(p)

SpecGateway == InitAuth /\ [][NextGateway]_vars

\* ------------------------------------------------------------------ claims
RowsOf(order_id) == {k \in DOMAIN payments : payments[k].order_id = order_id}

Finished(p, kind) == pc[p] = "done" /\ loc[p].kind = kind

\* C1: a process call that finds a Payment row for its order at the lookup
\* answers 200 with exactly that row, draws no outcome and sends no callback,
\* and the order keeps exactly one row.
C1_SecondCallReturnsFirst ==
    \A p \in Procs :
      (Finished(p, "process") /\ loc[p].existed) =>
         /\ loc[p].code = 200
         /\ Cardinality(RowsOf(loc[p].order_id)) = 1
         /\ \A k \in RowsOf(loc[p].order_id) : loc[p].payment = payments[k]
         /\ ~loc[p].drew
         /\ loc[p].called = "no"

C1_Witness ==
    \E p \in Procs :
      /\ Finished(p, "process") /\ loc[p].existed
      /\ loc[p].payment.status = "failed"
      /\ loc[p].payment.order_id = loc[p].order_id

\* C2 (as claimed): a status-transition request on an order whose stored
\* status is paid or cancelled is refused and leaves the status as it was.
C2_TerminalRefused ==
    \A p \in Procs :
      (Finished(p, "status") /\ loc[p].before \in {"paid", "cancelled"}) =>
         /\ loc[p].code # 200
         /\ loc[p].order.status = loc[p].before

\* C3: no order ever has more than one Payment row.
C3_OneRowPerOrder == \A o \in DOMAIN orders : Cardinality(RowsOf(o)) <= 1

C3_Witness ==
    \E p \in Procs :
      /\ Finished(p, "process") /\ ~loc[p].existed
      /\ loc[p].detail = "duplicate_key"
      /\ Cardinality(RowsOf(loc[p].order_id)) = 1

\* C4 (as claimed): every write of an order's status, by a status request, a
\* payment callback or a user cancel, replaces the stored status pending.
C4_WritesOnlyFromPending ==
    \A p \in Procs :
      (/\ pc[p] = "done" /\ loc[p].code = 200
       /\ \/ loc[p].kind \in {"status", "cancel"}
          \/ loc[p].kind = "process" /\ loc[p].called = "delivered")
      => loc[p].before = "pending"

C6_StatusDomain ==
    \A o \in DOMAIN orders : orders[o].status \in {"pending", "paid", "cancelled"}

\* C7 (as claimed): a paid order has a completed Payment row.
C7_PaidHasCompletedPayment ==
    \A o \in DOMAIN orders :
      orders[o].status = "paid" =>
         \E k \in RowsOf(o) : payments[k].status = "completed"

\* C8: a create call that meets an empty or missing cart, or a line whose
\* product is inactive or short of stock, ends in an error, and no step of a
\* create call before its insert changes the orders or the carts.
StepBy(p) == pc'[p] # pc[p] \/ loc'[p] # loc[p]

Offending(p) ==
    /\ pc[p] = "co_validate"
    /\ LET item == loc[p].items[loc[p].i] IN
         \/ ~catalog[item.product_id].is_active
         \/ catalog[item.product_id].stock < item.quantity

C9_CreatePersistsAndClears ==
    [][\A p \in Procs :
         /\ (pc[p] = "idle" /\ pc'[p] = "co_validate") =>
               loc'[p].items = carts[loc'[p].user].items
         /\ (pc[p] = "co_validate" /\ pc'[p] \in {"co_validate", "co_insert"}) =>
               loc'[p].items = loc[p].items
         /\ (pc[p] # "co_insert" /\ pc'[p] = "co_insert") => pc[p] = "co_validate"
         /\ (pc[p] # "co_clear" /\ pc'[p] = "co_clear") =>
               /\ pc[p] = "co_insert"
               /\ Len(orders') = Len(orders) + 1
               /\ SubSeq(orders', 1, Len(orders)) = orders
               /\ orders'[Len(orders')].status = "pending"
               /\ orders'[Len(orders')].user_id = loc[p].user
               /\ orders'[Len(orders')].items = loc[p].items
               /\ carts' = carts
         /\ (pc[p] # "done" /\ pc'[p] = "done" /\ loc'[p].kind = "create"
             /\ loc'[p].code = 200) =>
               /\ pc[p] = "co_clear"
               /\ orders' = orders
               /\ carts'[loc[p].user].exists
               /\ carts'[loc[p].user].items = <<>>
               /\ \A u \in Users \ {loc[p].user} : carts'[u] = carts[u]]_vars

C9_Witness ==
    \E p \in Procs :
      /\ Finished(p, "create") /\ loc[p].code = 200
      /\ Len(loc[p].order.items) = 2
      /\ carts[loc[p].user] = [exists |-> TRUE, items |-> <<>>]

C11_OrderUsesSnapshotPrice ==
    [][\A p \in Procs :
         /\ (pc[p] = "co_validate" /\ StepBy(p) /\ pc'[p] # "done"
             /\ catalog[loc[p].items[loc[p].i].product_id].price
                  # loc[p].items[loc[p].i].price) =>
               LET item == loc[p].items[loc[p].i] IN
                 /\ loc'[p].order_items[loc[p].i].price = Decimal_str(item.price)
                 /\ loc'[p].total_amount
                      = loc[p].total_amount + Decimal_str(item.price) * item.quantity
         /\ (pc[p] = "co_insert" /\ StepBy(p)) =>
               /\ \A k \in DOMAIN loc[p].items :
                    orders'[Len(orders')].items[k].price = loc[p].items[k].price
               /\ Decimal_str(orders'[Len(orders')].total_amount) = SumItems(loc[p].items)]_vars

C11_Witness ==
    \E p \in Procs :
      /\ Finished(p, "create") /\ loc[p].code = 200
      /\ loc[p].order.items[1].price = 101
      /\ catalog[loc[p].order.items[1].product_id].price = 250
      /\ loc[p].order.total_amount = SumItems(loc[p].order.items)
      /\ carts[loc[p].user].items = <<>>

C13_PaymentRowsImmutable ==
    [][\A k \in DOMAIN payments :
         /\ k \in DOMAIN payments'
         /\ payments'[k] = payments[k]]_vars

C13_Witness ==
    /\ Len(payments) = 2
    /\ payments[1].status = "failed" /\ payments[2].status = "completed"
    /\ \E p \in Serial : Finished(p, "by_id") /\ loc[p].code = 200
                         /\ loc[p].payment = payments[1]
    /\ orders[payments[1].order_id].status = "pending"

RECURSIVE QuantityOf(_, _)
QuantityOf(items, product_id) ==
    IF items = <<>> THEN 0
    ELSE (IF Head(items).product_id = product_id THEN Head(items).quantity ELSE 0)
         + QuantityOf(Tail(items), product_id)

C15_NotPendingRefused ==
    [][\A p \in Procs :
         (/\ pc[p] = "pp_fetch" /\ StepBy(p)
          /\ FindOrder(loc[p].order_id, loc[p].user).id # 0
          /\ FindOrder(loc[p].order_id, loc[p].user).status # "pending") =>
            /\ pc'[p] = "done"
            /\ \/ loc'[p].code = 400 /\ loc'[p].detail = "order_not_pending"
               \/ loc'[p].code = 503 /\ loc'[p].detail = "orders_unavailable"
            /\ ~loc'[p].drew /\ loc'[p].called = "no"
            /\ loc'[p].payment = NoPayment
            /\ payments' = payments /\ orders' = orders]_vars

C15_Witness ==
    \E p \in Procs :
      /\ Finished(p, "process") /\ ~loc[p].existed
      /\ loc[p].code = 400 /\ loc[p].detail = "order_not_pending"
      /\ orders[loc[p].order_id].status = "cancelled"
      /\ payments = <<>>

\* C16 (as claimed): a process call whose status callback failed, because the
\* order coordinator could not be reached or because it answered with an
\* error, still answers 200 with the Payment row it inserted, and the row
\* stays in the store.
C16_CallbackFailureStillReturns ==
    \A p \in Procs :
      (Finished(p, "process") /\ loc[p].called \in {"lost", "http_error"}) =>
         /\ loc[p].code = 200
         /\ loc[p].payment # NoPayment
         /\ \A k \in RowsOf(loc[p].order_id) : loc[p].payment = payments[k]
         /\ Cardinality(RowsOf(loc[p].order_id)) = 1

\* C17: once an order is pending while its Payment row is completed and no
\* callback for it is in flight (the callback was lost), no step of a process
\* call changes the orders or the payments: a new process call for the order
\* ends at the gate with 200 and the stored row, draws nothing and sends no
\* callback, and a call already past the gate cannot insert.
Diverged(o) ==
    /\ orders[o].status = "pending"
    /\ \E k \in RowsOf(o) : payments[k].status = "completed"
    /\ \A q \in Procs : pc[q] # "pp_callback"

C17_LostCallbackNotRepaired ==
    [][\A o \in DOMAIN orders, p \in Procs :
         (Diverged(o) /\ StepBy(p) /\ loc'[p].kind = "process" /\ loc'[p].order_id = o) =>
            /\ orders' = orders /\ payments' = payments
            /\ pc'[p] # "pp_callback"
            /\ pc[p] = "idle" =>
                 /\ pc'[p] = "done" /\ loc'[p].code = 200
                 /\ loc'[p].payment \in {payments[k] : k \in RowsOf(o)}
                 /\ ~loc'[p].drew /\ loc'[p].called = "no"]_vars

C17_Witness ==
    \E p, q \in Procs :
      /\ Finished(q, "process") /\ loc[q].called = "lost" /\ loc[q].is_success
      /\ Finished(p, "process") /\ loc[p].existed /\ loc[p].code = 200
      /\ loc[p].order_id = loc[q].order_id
      /\ loc[p].payment.status = "completed"
      /\ orders[loc[p].order_id].status = "pending"

\* C18 (as claimed): a user cancel answers 200 only for the caller's own
\* order and only when the status it replaces is pending; a cancel of another
\* user's order is answered NotFound (404) and a cancel of a non-pending
\* order is refused (400).
C18_CancelOwnPendingOnly ==
    \A p \in Procs :
      Finished(p, "cancel") =>
         /\ loc[p].code = 200 =>
              /\ loc[p].order.user_id = loc[p].user
              /\ loc[p].before = "pending"
              /\ loc[p].order.status = "cancelled"
         /\ orders[loc[p].order_id].user_id # loc[p].user => loc[p].code = 404
         /\ loc[p].detail = "not_pending" => loc[p].code = 400

\* C19: verify answers 200 with the token's claims only for a bearer token
\* signed with the access key, not expired when it is decoded and whose jti
\* is not in the revocation list when the list is read; every other verify
\* call is answered 401.
C19_VerifyOnlyValidTokens ==
    [][\A p \in Procs :
         /\ (pc[p] = "idle" /\ StepBy(p) /\ loc'[p].kind = "verify") =>
               IF /\ loc'[p].scheme = "Bearer"
                  /\ loc'[p].token.key = SECRET_KEY
                  /\ loc'[p].token.claims.exp >= now
               THEN pc'[p] = "vf_find" /\ loc'[p].payload = loc'[p].token.claims
               ELSE pc'[p] = "done" /\ loc'[p].code = 401 /\ loc'[p].payload = NoClaims
         /\ (pc[p] = "vf_find" /\ StepBy(p)) =>
               /\ pc'[p] = "done"
               /\ IF \E d \in revoked_tokens : d.jti = loc[p].token.claims.jti
                  THEN loc'[p].code = 401 /\ loc'[p].payload = NoClaims
                  ELSE loc'[p].code = 200 /\ loc'[p].payload = loc[p].token.claims]_vars

\* A revoked, unexpired token is refused while another call accepts a token.
C19_Witness ==
    \E p \in Procs :
      /\ Finished(p, "verify") /\ loc[p].code = 401 /\ loc[p].detail = "token_revoked"
      /\ loc[p].token = issued[1]
      /\ loc[p].token.claims.exp >= now
      /\ \E d \in revoked_tokens : d.jti = 1

\* C20 (as claimed): a verify call for a token that a finished logout had
\* revoked before the call began is answered 401, however much later.
C20_RevokedNeverVerifies ==
    \A p \in Procs :
      (Finished(p, "verify") /\ loc[p].existed) => loc[p].code = 401

\* C21 (as claimed): a refresh call with a refresh token for which a finished
\* refresh had already answered 200 is refused.
C21_RotatedTokenRefused ==
    \A p \in Procs :
      (Finished(p, "refresh") /\ loc[p].existed) => loc[p].code = 401

\* C22 (as claimed): every entry of the revocation list carries the jti of an
\* issued token together with that token's own expiry.
C22_EntryCarriesTokenExpiry ==
    \A d \in revoked_tokens :
      \E k \in DOMAIN issued :
        /\ issued[k].claims.jti = d.jti
        /\ issued[k].claims.exp = d.exp

\* The verifier accepts the token of slot p now: bearer scheme, signature and
\* expiry good, jti not in the revocation list.
Accepts(p) ==
    /\ require_auth(loc[p].scheme, loc[p].token) # NoClaims
    /\ ~find_revoked(require_auth(loc[p].scheme, loc[p].token).jti)

Protected(path) == path \notin {"/api/auth/login", "/api/auth/register", "/health", "/docs"}

C25_OnlyResolvedIdentityForwarded ==
    \A p \in Procs :
      (loc[p].kind = "forward" /\ (pc[p] = "fw_send" \/ loc[p].called # "no")) =>
        /\ loc[p].headers.x_user_id = loc[p].payload.sub
        /\ loc[p].headers.x_user_role = loc[p].payload.role

\* C26: when the downstream call fails in transport the caller is answered
\* 503 with the generic body; otherwise the caller receives the status code
\* and body of the downstream's answer to the one call made, whatever they
\* are; the step that makes the call always ends the request.
C26_DownstreamPassedThrough ==
    /\ \A p \in Procs :
         (Finished(p, "forward") /\ loc[p].called # "no") =>
           IF loc[p].answer.kind = "unreachable"
           THEN loc[p].code = 503 /\ loc[p].detail = "Service Unavailable"
           ELSE loc[p].code = loc[p].answer.code /\ loc[p].detail = loc[p].answer.body
    /\ \A p \in Procs :
         (loc[p].kind = "forward" /\ loc[p].answer # NoAnswer) => pc[p] = "done"

\* A downstream error answer was passed through with its body.
C26_Witness ==
    \E p \in Procs :
      /\ Finished(p, "forward") /\ loc[p].called = "delivered"
      /\ loc[p].answer.code = 404 /\ loc[p].code = 404
      /\ loc[p].detail = "content_b"

\* An unreachable downstream has been answered for.
C26_WitnessUnreachable ==
    \E p \in Procs :
      /\ Finished(p, "forward") /\ loc[p].called = "lost" /\ loc[p].code = 503

\* The lines of a cart name distinct products with positive quantities, and
\* a user without a cart record has no lines.
WellFormed(cart) ==
    /\ \A j, k \in DOMAIN cart.items :
         cart.items[j].product_id = cart.items[k].product_id => j = k
    /\ \A k \in DOMAIN cart.items : cart.items[k].quantity > 0
    /\ ~cart.exists => cart.items = <<>>

Undisturbed(p) == carts[loc[p].user].items = loc[p].items

SameButQuantity(new, old, x) ==
    /\ Len(new) = Len(old)
    /\ \A k \in DOMAIN old :
         /\ new[k].product_id = old[k].product_id
         /\ new[k].price = old[k].price
         /\ old[k].product_id # x => new[k].quantity = old[k].quantity

C30_RejectedMutationTyped ==
    [][\A p \in Procs :
         (StepBy(p) /\ pc[p] = "idle" /\ pc'[p] = "done") =>
           LET l == loc'[p] IN
           /\ (l.kind = "add" /\ l.detail # "unreachable"
                 /\ (~catalog[l.product_id].is_active
                       \/ catalog[l.product_id].stock < l.quantity)) =>
                (l.code \in {400, 422} /\ carts' = carts)
           /\ (l.kind = "update" /\ IndexOf(carts[l.user].items, l.product_id) = 0) =>
                (l.code = 404 /\ carts' = carts)]_vars

\* A process request that stands inside the handler.
Processing(p) == loc[p].kind = "process" /\ pc[p] \notin {"idle", "done"}

\* A dependency of the finished process request of slot p did not answer.
Unanswered(p) ==
    \/ loc[p].detail \in {"auth_unavailable", "orders_unavailable"}
    \/ loc[p].called = "lost"

\* C31 (as claimed): a finished process request one of whose dependencies
\* never answered ended with a service-unavailable result.
C31_UnansweredIs503 ==
    \A p \in Procs :
      (Finished(p, "process") /\ Unanswered(p)) => loc[p].code = 503

\* C31 (amended): every process request that entered the handler completes,
\* with the Payment record (200) or with an error; when the auth service or
\* the order fetch does not answer the result is service-unavailable (503),
\* and when the status callback does not answer the request still returns
\* the Payment record it persisted.
C31_ProcessCompletes ==
    /\ \A p \in Procs : Processing(p) ~> (pc[p] = "done")
    /\ [](\A p \in Procs :
            Finished(p, "process") =>
              /\ \/ loc[p].code = 200 /\ loc[p].payment # NoPayment
                 \/ loc[p].code \in {400, 401, 500, 503} /\ loc[p].payment = NoPayment
              /\ loc[p].detail \in {"auth_unavailable", "orders_unavailable"}
                   => loc[p].code = 503
              /\ loc[p].called = "lost" =>
                   /\ loc[p].code = 200
                   /\ loc[p].payment = FindPaymentByOrder(loc[p].order_id))

\* A request whose callback was lost has returned its Payment record while
\* another ended on the order fetch that did not answer.
C31_Witness ==
    /\ \E p \in Procs : Finished(p, "process") /\ loc[p].called = "lost"
                          /\ loc[p].code = 200
    /\ \E p \in Procs : Finished(p, "process") /\ loc[p].detail = "orders_unavailable"

\* The sum of quantity times price over the lines, with the prices as the
\* catalog was given them: 10.10 and 5.05.
RECURSIVE ExactSum(_)
ExactSum(items) ==
    IF items = <<>> THEN 0
    ELSE Head(items).quantity * ExamplePrice(Head(items).product_id) + ExactSum(Tail(items))

AtCallback(p) ==
    \/ pc[p] = "pp_callback"
    \/ Finished(p, "process") /\ loc[p].called # "no"

\* C33: of the process calls for one order that all passed the lookup, only
\* the call whose insert succeeded sends a status callback: a call at or past
\* its callback holds the row it inserted, no two calls do so for the same
\* order, and a call whose insert was rejected ends with an error and has
\* sent no callback.
C33_OnlyInserterCallsBack ==
    /\ \A p \in Procs :
         AtCallback(p) =>
           /\ pc[p] = "pp_callback" =>
                 /\ loc[p].payment_id \in DOMAIN payments
                 /\ payments[loc[p].payment_id].order_id = loc[p].order_id
           /\ FindPaymentByOrder(loc[p].order_id).id # 0
           /\ loc[p].drew /\ ~loc[p].existed
    /\ \A p, q \in Procs :
         (AtCallback(p) /\ AtCallback(q) /\ loc[p].order_id = loc[q].order_id) => p = q
    /\ \A p \in Procs :
         (Finished(p, "process") /\ loc[p].detail = "duplicate_key") =>
           /\ loc[p].code = 500 /\ loc[p].called = "no"
           /\ loc[p].payment = NoPayment

\* Two calls for the same order both passed the lookup; one inserted and
\* sent the callback, the other's insert was rejected.
C33_Witness ==
    \E p, q \in Procs :
      /\ Finished(p, "process") /\ loc[p].called = "delivered"
      /\ Finished(q, "process") /\ loc[q].detail = "duplicate_key"
      /\ ~loc[q].existed /\ loc[q].order_id = loc[p].order_id

\* The line is one of the lines of the order.
Contains(order, line) ==
    \E k \in DOMAIN order.items :
      /\ order.items[k].product_id = line.product_id
      /\ order.items[k].quantity = line.quantity

\* C34: every line that create's clearing of the cart removes is contained
\* in the order that call persisted, whatever ran between its read of the
\* cart and the clearing.
C34_NoLineLostByCheckout ==
    [][\A p \in Procs :
         (pc[p] = "co_clear" /\ pc'[p] = "done") =>
           \A k \in DOMAIN carts[loc[p].user].items :
             Contains(orders[loc[p].order_id], carts[loc[p].user].items[k])]_vars

\* C35: the orders persisted from one filled cart of a user number at most
\* one.
C35_OneOrderPerCart ==
    \A u \in Users : Cardinality({o \in DOMAIN orders : orders[o].user_id = u}) <= 1

\* C36: every Payment row carries the user_id of the order its order_id
\* names, and as amount that order's total_amount.
C36_PaymentMatchesOrder ==
    \A k \in DOMAIN payments :
      /\ payments[k].order_id \in DOMAIN orders
      /\ payments[k].user_id = orders[payments[k].order_id].user_id
      /\ payments[k].amount = orders[payments[k].order_id].total_amount

\* A row was inserted by a process call of the order's owner, and a process
\* call of another user for the same order was refused at the fetch.
C36_Witness ==
    \E p, q \in Procs :
      /\ Finished(p, "process") /\ loc[p].drew /\ loc[p].code = 200
      /\ payments # <<>>
      /\ Finished(q, "process") /\ loc[q].user # orders[loc[q].order_id].user_id
      /\ loc[q].detail = "could_not_verify_order" /\ loc[q].order_id = loc[p].order_id

\* C37: a Payment record returned by process, get_payment_by_order or
\* get_payment is returned to the user its user_id names.
C37_PaymentOnlyToOwner ==
    \A p \in Procs :
      (pc[p] = "done" /\ loc[p].kind \in {"process", "by_order", "by_id"}
         /\ loc[p].payment # NoPayment) =>
        loc[p].payment.user_id = loc[p].user

\* The revocation list holds an entry for the unique id.
Revoked(jti) == \E e \in revoked_tokens : e.jti = jti

\* The logout of slot p failed on its refresh token, after require_auth had
\* accepted its access token.
FailedOnRefresh(p) ==
    /\ Finished(p, "logout") /\ loc[p].code # 200
    /\ loc[p].payload # NoClaims

\* C38: logout inserts the access token's unique id before it validates the
\* refresh token, and a failure on the refresh token takes nothing back: the
\* step that accepts the access token leaves its id in the list, the step
\* that fails on the refresh token leaves the list as it is, and within the
\* life of the entry a logout that failed on the refresh token has its access
\* token revoked.
C38_FailedLogoutRevokesAccess ==
    /\ [][\A p \in Procs :
            /\ (pc[p] = "idle" /\ pc'[p] = "lo_refresh") =>
                  \E e \in revoked_tokens' : e.jti = loc'[p].payload.jti
            /\ (pc[p] = "lo_refresh" /\ pc'[p] = "done" /\ loc'[p].code # 200) =>
                  /\ revoked_tokens' = revoked_tokens
                  /\ verify_refresh_token(loc[p].refresh_token) = NoClaims]_vars
    /\ [](\A p \in Procs : FailedOnRefresh(p) => Revoked(loc[p].payload.jti))

\* A logout with a valid access token and a token that is no refresh token
\* has failed, and the access token's id is in the revocation list.
C38_Witness ==
    \E p \in Procs :
      /\ FailedOnRefresh(p) /\ loc[p].detail = "could_not_validate"
      /\ Revoked(loc[p].payload.jti)
      /\ ~Revoked(loc[p].refresh_token.claims.jti)

\* The refresh tokens issued: the second token of every pair.
RefreshTokens == {issued[k] : k \in {j \in DOMAIN issued : j % 2 = 0}}

\* C39: a verify that is given a refresh token as its bearer token fails at
\* require_auth with 401 and resolves no identity; it never reaches the
\* revocation lookup.
C39_RefreshTokenNotAccepted ==
    \A p \in Procs :
      (pc[p] # "idle" /\ loc[p].kind = "verify" /\ loc[p].token \in RefreshTokens) =>
        /\ pc[p] = "done"
        /\ loc[p].code = 401 /\ loc[p].detail = "could_not_validate"
        /\ loc[p].payload = NoClaims

\* A verify of a refresh token that is neither expired nor revoked, sent as
\* a bearer token, has failed.
C39_Witness ==
    \E p \in Procs :
      /\ Finished(p, "verify") /\ loc[p].scheme = "Bearer"
      /\ loc[p].token \in RefreshTokens /\ loc[p].code = 401
      /\ ~(loc[p].token.claims.exp < now)
      /\ ~Revoked(loc[p].token.claims.jti)
      /\ verify_refresh_token(loc[p].token) # NoClaims

\* C40: add and update write the whole list they built from their own read
\* of the cart over whatever is stored when they save, so what another call
\* saved in between is replaced; remove is one step, a pull on the list as
\* it is stored at that moment.
C40_ReadModifyWrite ==
    [][\A p \in Procs :
         LET u == loc[p].user IN
         /\ (StepBy(p) /\ pc[p] = "add_save") =>
               carts'[u].items = AddItem(loc[p].items, loc[p].product_id,
                                         loc[p].quantity, loc[p].product)
         /\ (StepBy(p) /\ pc[p] = "upd_save") =>
               carts'[u].items = loc[p].items
         /\ (StepBy(p) /\ pc[p] = "idle" /\ loc'[p].kind = "remove") =>
               /\ pc'[p] = "done"
               /\ carts'[loc'[p].user].items =
                    Pull(carts[loc'[p].user].items, loc'[p].product_id)]_vars

\* Two adds of different products to the same cart have both saved, the
\* second over a list changed since it was read, and the cart holds only the
\* line of the second: the line of the first is lost.
C40_Witness ==
    \E p, q \in Procs :
      /\ p # q /\ Finished(p, "add") /\ Finished(q, "add")
      /\ loc[p].detail = "get_cart_call" /\ loc[q].detail = "get_cart_call"
      /\ loc[p].user = loc[q].user /\ loc[p].product_id # loc[q].product_id
      /\ loc[p].before = "as_read" /\ loc[q].before = "changed"
      /\ carts[loc[q].user].items =
           <<Item(loc[q].product_id, loc[q].quantity, catalog[loc[q].product_id].price)>>

====
